---- MODULE Spec2Model ----
(***************************************************************************)
(* The expression compiler of fixlang: free-variable annotation (ast.rs),  *)
(* IR emission with reference-count insertion (generator.rs), object       *)
(* layouts and destructors (types.rs), the driver (runner.rs), and an      *)
(* abstract machine that runs the emitted IR on a reference-counted heap.  *)
(***************************************************************************)
EXTENDS Integers, Sequences, FiniteSets, TLC

VARIABLES
  phase,    \* position of run_ast: "fv" | "start" | "gen" | "verify" | "run" | "done" | ...
  ast,      \* the program (un-annotated before calculate_free_vars, annotated after)
  module,   \* the IR module: a sequence of functions
  gcs,      \* the live GenerationContext values, innermost (active) last
  heap,     \* runtime: the objects ever allocated, by object id
  table,    \* runtime: the sanitizer's allocation table (object ids)
  stack,    \* runtime: the call stack of the running program, innermost last
  result,   \* the i64 returned by main
  err       \* the first memory error of the run ("" when none)

vars == <<phase, ast, module, gcs, heap, table, stack, result, err>>

\* ------------------------------------------------------------------ bounds
MaxSize == 5      \* nodes of an exhaustively enumerated typed program
MaxFvSize == 4    \* nodes of an AST given to the free-variable pass alone
MaxDepth == 6     \* call-stack depth at which a run is cut off
MaxCount == 2     \* largest used_later counter of a scope given to modify_used_later alone

\* ------------------------------------------------------------------ ast.rs
SELF_NAME == "%SELF%"

Nil == [r |-> 0, ty |-> "none"]

Range(s) == {s[i] : i \in 1..Len(s)}

\* ExprInfo values; the constructors leave free_vars empty (into_expr_info).
var(n) == [k |-> "Var", name |-> n, fv |-> {}]
lit(ty, v, names) == [k |-> "Lit", ty |-> ty, val |-> v, free_vars |-> names, fv |-> {}]
app(f, a) == [k |-> "App", f |-> f, a |-> a, fv |-> {}]
lam(x, e) == [k |-> "Lam", arg |-> x, body |-> e, fv |-> {}]
let_in(x, b, v) == [k |-> "Let", var |-> x, bound |-> b, val |-> v, fv |-> {}]
conditional(c, t, e) == [k |-> "If", c |-> c, t |-> t, e |-> e, fv |-> {}]
type_node == [k |-> "Type", fv |-> {}]

with_free_vars(ei, s) == [ei EXCEPT !.fv = s]

\* variant: a Let whose variable is also bound in its own bound expression
RECURSIVE calculate_free_vars_letrec(_)
calculate_free_vars_letrec(ei) ==
  CASE ei.k = "Var" -> with_free_vars(ei, {ei.name})
    [] ei.k = "Lit" -> with_free_vars(ei, Range(ei.free_vars))
    [] ei.k = "App" ->
         LET func == calculate_free_vars_letrec(ei.f)
             arg == calculate_free_vars_letrec(ei.a)
         IN  with_free_vars(app(func, arg), func.fv \cup arg.fv)
    [] ei.k = "Lam" ->
         LET val == calculate_free_vars_letrec(ei.body)
         IN  with_free_vars(lam(ei.arg, val), (val.fv \ {ei.arg}) \ {SELF_NAME})
    [] ei.k = "Let" ->
         LET bound == calculate_free_vars_letrec(ei.bound)
             val == calculate_free_vars_letrec(ei.val)
         IN  with_free_vars(let_in(ei.var, bound, val), (val.fv \cup bound.fv) \ {ei.var})
    [] ei.k = "If" ->
         LET cond == calculate_free_vars_letrec(ei.c)
             then == calculate_free_vars_letrec(ei.t)
             else_expr == calculate_free_vars_letrec(ei.e)
         IN  with_free_vars(conditional(cond, then, else_expr),
                            cond.fv \cup then.fv \cup else_expr.fv)
    [] OTHER -> ei

RECURSIVE calculate_free_vars(_)
calculate_free_vars(ei) ==
  CASE ei.k = "Var" -> with_free_vars(ei, {ei.name})
    [] ei.k = "Lit" -> with_free_vars(ei, Range(ei.free_vars))
    [] ei.k = "App" ->
         LET func == calculate_free_vars(ei.f)
             arg == calculate_free_vars(ei.a)
         IN  with_free_vars(app(func, arg), func.fv \cup arg.fv)
    [] ei.k = "Lam" ->
         LET val == calculate_free_vars(ei.body)
         IN  with_free_vars(lam(ei.arg, val), (val.fv \ {ei.arg}) \ {SELF_NAME})
    [] ei.k = "Let" ->
         LET bound == calculate_free_vars(ei.bound)
             val == calculate_free_vars(ei.val)
         IN  with_free_vars(let_in(ei.var, bound, val), (val.fv \ {ei.var}) \cup bound.fv)
    [] ei.k = "If" ->
         LET cond == calculate_free_vars(ei.c)
             then == calculate_free_vars(ei.t)
             else_expr == calculate_free_vars(ei.e)
         IN  with_free_vars(conditional(cond, then, else_expr),
                            cond.fv \cup then.fv \cup else_expr.fv)
    [] OTHER -> ei

\* ------------------------------------------------------- tree navigation
Kids(e) ==
  CASE e.k = "App" -> <<e.f, e.a>>
    [] e.k = "Lam" -> <<e.body>>
    [] e.k = "Let" -> <<e.bound, e.val>>
    [] e.k = "If" -> <<e.c, e.t, e.e>>
    [] OTHER -> <<>>

\* the names a node binds in its i-th child
BindsAt(e, i) ==
  CASE e.k = "Lam" -> {e.arg, SELF_NAME}
    [] e.k = "Let" /\ i = 2 -> {e.var}
    [] OTHER -> {}

LeafNames(e) ==
  CASE e.k = "Var" -> {e.name}
    [] e.k = "Lit" -> Range(e.free_vars)
    [] OTHER -> {}

RECURSIVE Paths(_)
Paths(e) ==
  {<<>>} \cup UNION {{<<i>> \o p : p \in Paths(Kids(e)[i])} : i \in 1..Len(Kids(e))}

RECURSIVE Sub(_, _)
Sub(e, p) == IF p = <<>> THEN e ELSE Sub(Kids(e)[p[1]], Tail(p))

RECURSIVE Strip(_)
Strip(e) ==
  CASE e.k = "App" -> app(Strip(e.f), Strip(e.a))
    [] e.k = "Lam" -> lam(e.arg, Strip(e.body))
    [] e.k = "Let" -> let_in(e.var, Strip(e.bound), Strip(e.val))
    [] e.k = "If" -> conditional(Strip(e.c), Strip(e.t), Strip(e.e))
    [] OTHER -> [e EXCEPT !.fv = {}]

\* ---------------------------------------------------------------- inputs
Names == <<"x", "y">>
IntVals == {1, 2}
BoolVals == {0, 1}

int_lit(v) == lit("Int", v, <<>>)
bool_lit(v) == lit("Bool", v, <<>>)

\* ASTs for the free-variable pass alone: every variant, open terms, %SELF%
\* outside a lambda, literals that declare names.
FvLeaves ==
  {var("x"), var("y"), var(SELF_NAME), int_lit(1), lit("Int", 1, <<"x">>),
   lit("Int", 1, <<"y", "x">>), type_node}

RECURSIVE FvTerms(_)
FvTerms(n) ==
  IF n = 1 THEN FvLeaves
  ELSE
    {lam(x, e) : x \in Range(Names), e \in FvTerms(n - 1)}
    \cup UNION {{app(f, a) : f \in FvTerms(i), a \in FvTerms(n - 1 - i)} : i \in 1..(n - 2)}
    \cup UNION {{let_in(x, b, v) : x \in Range(Names), b \in FvTerms(i), v \in FvTerms(n - 1 - i)}
                  : i \in 1..(n - 2)}
    \cup UNION {UNION {{conditional(c, t, e) : c \in FvTerms(i), t \in FvTerms(j),
                                                e \in FvTerms(n - 1 - i - j)}
                         : j \in 1..(n - 2 - i)} : i \in 1..(n - 3)}

FvInputs == UNION {FvTerms(n) : n \in 1..MaxFvSize}


\* Closed, simply typed programs: the compiler has no type checker, and a
\* program that applies a non-closure or branches on a non-boolean has no
\* defined run.  They hold no Type node: generate_expr stops at todo!() there.  Types are "I", "B" and the first-order function types.
FunTypes ==
  {[n |-> "I>I", a |-> "I", b |-> "I"], [n |-> "I>B", a |-> "I", b |-> "B"],
   [n |-> "B>I", a |-> "B", b |-> "I"], [n |-> "B>B", a |-> "B", b |-> "B"]}
BaseTypes == {"I", "B"}
Types == BaseTypes \cup {ft.n : ft \in FunTypes}

\* binder names up to renaming: a name already bound, or the first unused one
Binders(env) ==
  LET unused == {i \in 1..Len(Names) : Names[i] \notin DOMAIN env}
  IN  {n \in Range(Names) : n \in DOMAIN env}
      \cup {Names[i] : i \in {j \in unused : \A l \in unused : j <= l}}

RECURSIVE Terms(_, _, _)
Terms(n, env, ty) ==
  IF n = 1 THEN
    {var(v) : v \in {w \in DOMAIN env : env[w] = ty}}
    \cup (IF ty = "I" THEN {int_lit(v) : v \in IntVals} ELSE {})
    \cup (IF ty = "B" THEN {bool_lit(v) : v \in BoolVals} ELSE {})
  ELSE
    UNION {UNION {{lam(p, e) : e \in Terms(n - 1, (p :> ft.a) @@ (SELF_NAME :> ty) @@ env, ft.b)}
                    : p \in Binders(env)} : ft \in {g \in FunTypes : g.n = ty}}
    \cup UNION {UNION {{app(f, a) : f \in Terms(i, env, ft.n), a \in Terms(n - 1 - i, env, ft.a)}
                         : i \in 1..(n - 2)} : ft \in {g \in FunTypes : g.b = ty}}
    \cup UNION {UNION {UNION {{let_in(p, b, v) : b \in Terms(i, env, a),
                                                  v \in Terms(n - 1 - i, (p :> a) @@ env, ty)}
                                : i \in 1..(n - 2)} : p \in Binders(env)} : a \in Types}
    \cup UNION {UNION {{conditional(c, t, e) : c \in Terms(i, env, "B"), t \in Terms(j, env, ty),
                                                e \in Terms(n - 1 - i - j, env, ty)}
                         : j \in 1..(n - 2 - i)} : i \in 1..(n - 3)}

EmptyEnv == [n \in {} |-> "I"]

\* programs beyond the enumerated size: a variable used twice in a pending
\* operand, recursion through %SELF%, branches that each drop the other's
\* variable, two captured names, a closure called twice, a closure that
\* returns a closure, closures of one layout inside and outside a lambda,
\* a name visible again after the Let that shadowed it, an If whose then
\* branch is an If, a variable used before an If and in one branch of it, and
\* a variable used in one branch of an If and after it, and an application
\* whose function and argument are applications on the same variable
Samples ==
  {let_in("x", int_lit(1), let_in("y", int_lit(2), app(lam("y", var("x")), var("x")))),
   app(lam("x", conditional(var("x"), int_lit(1), app(var(SELF_NAME), bool_lit(1)))), bool_lit(0)),
   let_in("x", int_lit(1), let_in("y", int_lit(2), conditional(bool_lit(0), var("x"), var("y")))),
   let_in("x", int_lit(1), let_in("y", bool_lit(1),
          app(lam("z", conditional(var("y"), var("x"), var("z"))), int_lit(2)))),
   let_in("f", lam("x", var("x")), app(var("f"), app(var("f"), int_lit(1)))),
   app(app(lam("x", lam("y", var("x"))), int_lit(1)), int_lit(2)),
   let_in("f", lam("x", lam("y", var("y"))), app(app(var("f"), int_lit(1)), int_lit(2))),
   let_in("x", int_lit(1), let_in("y", let_in("x", int_lit(2), var("x")), var("x"))),
   conditional(bool_lit(1), conditional(bool_lit(0), int_lit(1), int_lit(2)), int_lit(2)),
   let_in("x", int_lit(1), let_in("y", var("x"), conditional(bool_lit(1), var("y"), var("x")))),
   let_in("x", int_lit(1), let_in("z", int_lit(2),
          let_in("y", conditional(bool_lit(1), var("x"), var("z")), var("x")))),
   let_in("f", lam("x", lam("y", var("y"))), let_in("z", int_lit(1),
          app(app(var("f"), var("z")), app(app(var("f"), var("z")), var("z")))))}

Programs == UNION {Terms(n, EmptyEnv, "I") : n \in 1..MaxSize} \cup Samples


\* ---------------------------------------------------------------- types.rs
SANITIZE_MEMORY == TRUE

int_obj_type == <<"ControlBlock", "Int">>
bool_obj_type == <<"ControlBlock", "Bool">>
lam_obj_type == <<"ControlBlock", "LambdaFunction">>

\* the IR type of a field (to_basic_type)
to_basic_type(ft) ==
  CASE ft = "ControlBlock" -> "ctl"
    [] ft = "LambdaFunction" -> "fnptr"
    [] ft = "SubObject" -> "obj"
    [] ft = "Int" -> "i64"
    [] OTHER -> "i8"

\* RuntimeFunctions keys of the registry
RtKey(n) == [rt |-> n, layout |-> <<>>]
DtorKey(layout) == [rt |-> "Dtor", layout |-> layout]

\* ----------------------------------------------------- the IR being built
\* A function of the module: its basic blocks (instruction sequences), the
\* number of SSA values it has, and for a destructor the layout it is for.
\* In every function value 0 is the first parameter and value 1 the second.
NewFunction(name, layout) ==
  [name |-> name, blocks |-> <<<<>>>>, nreg |-> 2, layout |-> layout]
Extern(name) == [name |-> name, blocks |-> <<>>, nreg |-> 0, layout |-> <<>>]

Val(r, ty) == [r |-> r, ty |-> ty]
FnPtr(f) == [r |-> f, ty |-> "fn"]
Const(c) == [r |-> c, ty |-> "const"]

\* An emission state: the module, the active GenerationContext, the value the
\* last builder call produced, and whether a panic or a counter underflow
\* happened.
Emit(s, ins) == [s EXCEPT !.m[s.g.fn].blocks[s.g.bb] = Append(@, ins)]
NewVal(s, ty) == [[s EXCEPT !.m[s.g.fn].nreg = @ + 1] EXCEPT !.v = Val(s.m[s.g.fn].nreg, ty)]
Panic(s) == [s EXCEPT !.panic = TRUE]

\* --------------------------------------------------- generator.rs: Scope
\* A u32 counter is kept as the signed reading of its 32 bits, so the
\* wrapped result 0xFFFFFFFF of 0 - 1 is -1; tests against 0 are unaffected.
add_i32_to_u32(u, i) == IF i < 0 THEN u - (-i) ELSE u + i

ScopePush(data, var_name, code) ==
  LET d == IF var_name \in DOMAIN data THEN data ELSE (var_name :> <<>>) @@ data
  IN  [d EXCEPT ![var_name] = Append(@, [code |-> code, used_later |-> 0])]

ScopePop(data, var_name) ==
  LET d == [data EXCEPT ![var_name] = SubSeq(@, 1, Len(@) - 1)]
  IN  IF d[var_name] = <<>> THEN [n \in DOMAIN d \ {var_name} |-> d[n]] ELSE d

\* variant: the oldest binding of the name instead of the newest
ScopeGetOldest(data, var_name) == data[var_name][1]

ScopeGet(data, var_name) == data[var_name][Len(data[var_name])]

modify_used_later(data, names, by) ==
  [n \in DOMAIN data |->
     IF n \in names
     THEN [data[n] EXCEPT ![Len(data[n])].used_later = add_i32_to_u32(@, by)]
     ELSE data[n]]

\* A counter below 0 stands for the wrapped u32 of a build without overflow
\* checks; a build with them panics at the subtraction.
Underflow(data) == \E n \in DOMAIN data : \E i \in 1..Len(data[n]) : data[n][i].used_later < 0

ModifyScope(s, names, by) ==
  IF names \subseteq DOMAIN s.g.scope
  THEN LET d == modify_used_later(s.g.scope, names, by)
       IN  [s EXCEPT !.g.scope = d, !.uf = @ \/ Underflow(d)]
  ELSE Panic(s)
increment_used_later(s, names) == ModifyScope(s, names, 1)
decrement_used_later(s, names) == ModifyScope(s, names, -1)

EmptyScope == [n \in {} |-> <<>>]

\* ------------------------------------- generator.rs: IR builder facade
call_runtime(s, func, ins) ==
  IF RtKey(func) \in DOMAIN s.g.runtimes
  THEN Emit(s, [ins EXCEPT !.fn = s.g.runtimes[RtKey(func)]])
  ELSE Panic(s)

build_pointer_cast(s, from, to) ==
  IF from.ty = to THEN [s EXCEPT !.v = from]
  ELSE LET s1 == NewVal(s, to)
       IN  Emit(s1, [op |-> "cast", dst |-> s1.v, src |-> from])

build_load_field_of_obj(s, obj, ty, index) ==
  LET s1 == NewVal(s, to_basic_type(ty[index + 1]))
  IN  Emit(s1, [op |-> "load", dst |-> s1.v, obj |-> obj, layout |-> ty, idx |-> index])

build_set_field(s, obj, ty, index, value) ==
  Emit(s, [op |-> "store", obj |-> obj, layout |-> ty, idx |-> index, val |-> value])

build_retain(s, ptr_to_obj) ==
  IF ptr_to_obj.ty # "obj" THEN Panic(s)
  ELSE call_runtime(s, "RetainObj", [op |-> "retain", fn |-> 0, obj |-> ptr_to_obj])

build_release(s, ptr_to_obj) ==
  IF ptr_to_obj.ty # "obj" THEN Panic(s)
  ELSE call_runtime(s, "ReleaseObj", [op |-> "release", fn |-> 0, obj |-> ptr_to_obj])

\* variant: an ordinary call that passes the closure first
build_app_closure_first(s, ptr_to_lambda, ptr_to_arg) ==
  LET s1 == build_load_field_of_obj(s, ptr_to_lambda, lam_obj_type, 1)
      s2 == NewVal(s1, "obj")
  IN  Emit(s2, [op |-> "call", dst |-> s2.v, callee |-> s1.v,
                args |-> <<ptr_to_lambda, ptr_to_arg>>, tail |-> FALSE])

build_app(s, ptr_to_lambda, ptr_to_arg) ==
  LET s1 == build_load_field_of_obj(s, ptr_to_lambda, lam_obj_type, 1)
      s2 == NewVal(s1, "obj")
  IN  Emit(s2, [op |-> "call", dst |-> s2.v, callee |-> s1.v,
                args |-> <<ptr_to_arg, ptr_to_lambda>>, tail |-> TRUE])

\* variant: the value is handed out without a retain even when used later
get_var_never_retained(s, var_name) ==
  IF var_name \notin DOMAIN s.g.scope THEN Panic(s)
  ELSE [s EXCEPT !.v = ScopeGet(s.g.scope, var_name).code]

\* variant: the value is retained at every use
get_var_always_retained(s, var_name) ==
  IF var_name \notin DOMAIN s.g.scope THEN Panic(s)
  ELSE LET v == ScopeGet(s.g.scope, var_name)
       IN  [build_retain(s, v.code) EXCEPT !.v = v.code]

get_var_retained_if_used_later(s, var_name) ==
  IF var_name \notin DOMAIN s.g.scope THEN Panic(s)
  ELSE LET v == ScopeGet(s.g.scope, var_name)
           s1 == IF v.used_later # 0 THEN build_retain(s, v.code) ELSE s
       IN  [s1 EXCEPT !.v = v.code]

\* ------------------------------------------- types.rs: destructors, allocation
\* variant: a destructor that releases no field
DtorFieldsNone(s, ptr_to_obj, field_types, i) == s

RECURSIVE DtorFields(_, _, _, _)
DtorFields(s, ptr_to_obj, field_types, i) ==
  IF i >= Len(field_types) THEN s
  ELSE IF field_types[i + 1] = "SubObject"
       THEN LET s1 == build_load_field_of_obj(s, ptr_to_obj, field_types, i)
            IN  DtorFields(build_release(s1, s1.v), ptr_to_obj, field_types, i + 1)
       ELSE DtorFields(s, ptr_to_obj, field_types, i + 1)

generate_func_dtor(s, self) ==
  IF DtorKey(self) \in DOMAIN s.g.runtimes
  THEN [s EXCEPT !.v = FnPtr(s.g.runtimes[DtorKey(self)])]
  ELSE
    LET func == Len(s.m) + 1
        s1 == [s EXCEPT !.m = Append(@, NewFunction("dtor", self)), !.g.fn = func, !.g.bb = 1]
        s2 == DtorFields(s1, Val(0, "obj"), self, 0)
        s3 == Emit(s2, [op |-> "ret", val |-> Nil])
    IN  [s3 EXCEPT !.g.fn = s.g.fn, !.g.bb = s.g.bb,
                   !.g.runtimes = (DtorKey(self) :> func) @@ @,
                   !.v = FnPtr(func)]

\* malloc, report_malloc under the sanitizer, refcount 1 and the destructor
\* pointer: one composite instruction
build_allocate_shared_obj(s, self, name) ==
  LET s1 == generate_func_dtor(s, self)
      dtor == s1.v
      s2 == NewVal(s1, "struct")
      ins == [op |-> "alloc", fn |-> 0, dst |-> s2.v, layout |-> self, dtor |-> dtor.r,
              report |-> SANITIZE_MEMORY, name |-> name]
  IN  IF SANITIZE_MEMORY
      THEN [call_runtime(s2, "ReportMalloc", ins) EXCEPT !.v = s2.v]
      ELSE Emit(s2, ins)


\* ------------------------------------------- generator.rs: generate_expr
\* The recursive descent is a stack of pending steps per GenerationContext
\* (work, innermost first); a step that follows a recursive generate_expr call
\* carries the locals of its Rust frame.  ret is the ExprCode the last
\* generate_expr call of this context returned.  Two fields record the
\* history of the calls and are read by no step: entry holds the scope each
\* generate_expr call in progress started with (innermost first), nret counts
\* the calls that have returned.
Top == gcs[Len(gcs)]
Frame == Head(Top.work)
At(t) == phase = "gen" /\ Top.work # <<>> /\ Frame.t = t
S0 == [m |-> module,
       g |-> [Top EXCEPT !.work = Tail(@),
                         !.entry = IF Frame.t = "Gen" THEN <<Top.scope>> \o @ ELSE @],
       v |-> Nil, panic |-> FALSE, uf |-> FALSE]

Gen(e) == [t |-> "Gen", e |-> e]
PushWork(s, frames) == [s EXCEPT !.g.work = frames \o @]

\* a generate_expr call returns: its entry record is dropped
Returned(s) == [s EXCEPT !.g.entry = Tail(@), !.g.nret = @ + 1]

\* variant: generate_expr hands its result back without the final cast
ReturnUncast(s, code) ==
  IF s.panic THEN s ELSE Returned([s EXCEPT !.g.ret = code, !.v = code])

\* the end of generate_expr: the cast to the generic object pointer
Return(s, code) ==
  IF s.panic THEN s
  ELSE LET c == build_pointer_cast(s, code, "obj") IN Returned([c EXCEPT !.g.ret = c.v])

PhaseAfter(s, ok) ==
  IF s.panic THEN phase' = "panic"
  ELSE IF s.uf THEN phase' \in {"panic", ok}
  ELSE phase' = ok

Commit(s) ==
  /\ module' = s.m
  /\ gcs' = [gcs EXCEPT ![Len(gcs)] = s.g]
  /\ PhaseAfter(s, "gen")
  /\ UNCHANGED <<ast, heap, table, stack, result, err>>

RECURSIVE Perms(_)
Perms(S) == IF S = {} THEN {<<>>} ELSE UNION {{<<x>> \o q : q \in Perms(S \ {x})} : x \in S}

generate_var(s, e) ==
  LET s1 == get_var_retained_if_used_later(s, e.name) IN Return(s1, s1.v)

GenVar ==
  /\ At("Gen") /\ Frame.e.k = "Var"
  /\ Commit(generate_var(S0, Frame.e))

\* a constant literal's generator: allocate the object, store the payload
\* (a primitive operator's generator: a closure object without captures whose
\* function is hand-written IR)
generate_literal(s, e) ==
  LET ty == CASE e.ty = "Int" -> int_obj_type
              [] e.ty = "Bool" -> bool_obj_type
              [] OTHER -> lam_obj_type
      s1 == build_allocate_shared_obj(s, ty, e.ty)
      s2 == build_set_field(s1, s1.v, ty, 1, IF e.ty = "Prim" THEN FnPtr(0) ELSE Const(e.val))
  IN  Return(s2, s1.v)

GenLit ==
  /\ At("Gen") /\ Frame.e.k = "Lit"
  /\ Commit(generate_literal(S0, Frame.e))

\* variant: the counters are not raised while the function is compiled
generate_app_start_no_bump(s, e) ==
  PushWork(s, <<Gen(e.f), [t |-> "AppMid", e |-> e]>>)

\* generate_app, up to the first recursive call
generate_app_start(s, e) ==
  PushWork(increment_used_later(s, e.a.fv), <<Gen(e.f), [t |-> "AppMid", e |-> e]>>)

GenAppStart ==
  /\ At("Gen") /\ Frame.e.k = "App"
  /\ Commit(generate_app_start(S0, Frame.e))

\* variant: the counters raised for the argument are not lowered again
generate_app_mid_keep(s, e) ==
  PushWork(s, <<Gen(e.a), [t |-> "AppEnd", e |-> e, lambda_code |-> s.g.ret]>>)

generate_app_mid(s, e) ==
  PushWork(decrement_used_later(s, e.a.fv),
           <<Gen(e.a), [t |-> "AppEnd", e |-> e, lambda_code |-> s.g.ret]>>)

GenAppMid ==
  /\ At("AppMid")
  /\ Commit(generate_app_mid(S0, Frame.e))

generate_app_end(s, lambda_code, arg_code) ==
  LET s1 == build_app(s, lambda_code, arg_code) IN Return(s1, s1.v)

GenAppEnd ==
  /\ At("AppEnd")
  /\ Commit(generate_app_end(S0, Frame.lambda_code, Top.ret))

\* variant: the variable is put in scope before its bound expression is compiled
generate_let_start_rec(s, e) ==
  LET used_in_val_except_var == e.val.fv \ {e.var}
      s1 == increment_used_later(s, used_in_val_except_var)
      s2 == [s1 EXCEPT !.g.scope = ScopePush(@, e.var, Nil)]
  IN  PushWork(s2, <<Gen(e.bound), [t |-> "LetMid", e |-> e, used |-> used_in_val_except_var]>>)

\* generate_let
generate_let_start(s, e) ==
  LET used_in_val_except_var == e.val.fv \ {e.var}
  IN  PushWork(increment_used_later(s, used_in_val_except_var),
               <<Gen(e.bound), [t |-> "LetMid", e |-> e, used |-> used_in_val_except_var]>>)

GenLetStart ==
  /\ At("Gen") /\ Frame.e.k = "Let"
  /\ Commit(generate_let_start(S0, Frame.e))

\* variant: a bound value the body does not use is never released
generate_let_mid_keep(s, e, used, bound_code) ==
  LET s1 == decrement_used_later(s, used)
      s2 == [s1 EXCEPT !.g.scope = ScopePush(@, e.var, bound_code)]
  IN  PushWork(s2, <<Gen(e.val), [t |-> "LetEnd", e |-> e, bound_code |-> bound_code]>>)

\* variant: the bound value is released whether or not the body uses it
generate_let_mid_release_always(s, e, used, bound_code) ==
  LET s1 == decrement_used_later(s, used)
      s2 == [s1 EXCEPT !.g.scope = ScopePush(@, e.var, bound_code)]
      s3 == build_release(s2, bound_code)
  IN  PushWork(s3, <<Gen(e.val), [t |-> "LetEnd", e |-> e, bound_code |-> bound_code]>>)

generate_let_mid(s, e, used, bound_code) ==
  LET s1 == decrement_used_later(s, used)
      s2 == [s1 EXCEPT !.g.scope = ScopePush(@, e.var, bound_code)]
      s3 == IF e.var \notin e.val.fv THEN build_release(s2, bound_code) ELSE s2
  IN  PushWork(s3, <<Gen(e.val), [t |-> "LetEnd", e |-> e, bound_code |-> bound_code]>>)

GenLetMid ==
  /\ At("LetMid")
  /\ Commit(generate_let_mid(S0, Frame.e, Frame.used, Top.ret))

\* variant: the variable stays in scope after the Let
generate_let_end_keep(s, e) == Returned(s)

generate_let_end(s, e) == Returned([s EXCEPT !.g.scope = ScopePop(@, e.var)])

GenLetEnd ==
  /\ At("LetEnd")
  /\ Commit(generate_let_end(S0, Frame.e))

\* generate_if
generate_if_start(s, e) ==
  LET used_then_or_else == e.t.fv \cup e.e.fv
  IN  PushWork(increment_used_later(s, used_then_or_else),
               <<Gen(e.c), [t |-> "IfCond", e |-> e, used |-> used_then_or_else]>>)

GenIfStart ==
  /\ At("Gen") /\ Frame.e.k = "If"
  /\ Commit(generate_if_start(S0, Frame.e))

RECURSIVE ReleaseVars(_, _)
ReleaseVars(s, order) ==
  IF order = <<>> THEN s
  ELSE ReleaseVars(build_release(s, ScopeGet(s.g.scope, Head(order)).code), Tail(order))

\* variant: the loop releases whatever the counter says
OnlyInAnyCount(s, other, this) ==
  {n \in other.fv : n \notin this.fv /\ n \in DOMAIN s.g.scope}

\* the names the loop at the head of a branch releases: free in the other
\* branch only, and not used later
OnlyIn(s, other, this) ==
  {n \in other.fv : n \notin this.fv /\ n \in DOMAIN s.g.scope
                    /\ ScopeGet(s.g.scope, n).used_later = 0}

generate_if_cond(s, e, used, ptr_to_cond_obj, order) ==
  LET s1 == decrement_used_later(s, used)
      s2 == build_load_field_of_obj(s1, ptr_to_cond_obj, bool_obj_type, 1)
      s3 == build_release(s2, ptr_to_cond_obj)
      s4 == NewVal(s3, "i1")
      s5 == Emit(s4, [op |-> "intcast", dst |-> s4.v, src |-> s2.v])
      n == Len(s5.m[s5.g.fn].blocks)
      s6 == [s5 EXCEPT !.m[s5.g.fn].blocks = @ \o <<<<>>, <<>>, <<>>>>]
      s7 == Emit(s6, [op |-> "condbr", cond |-> s4.v, then |-> n + 1, else |-> n + 2])
      s8 == ReleaseVars([s7 EXCEPT !.g.bb = n + 1], order)
  IN  IF ~((e.e.fv \ e.t.fv) \subseteq DOMAIN s.g.scope) THEN Panic(s) ELSE
      PushWork(s8, <<Gen(e.t), [t |-> "IfThen", e |-> e, then_bb |-> n + 1,
                                else_bb |-> n + 2, cont_bb |-> n + 3]>>)

GenIfCond ==
  /\ At("IfCond")
  /\ \E order \in Perms(OnlyIn(decrement_used_later(S0, Frame.used), Frame.e.e, Frame.e.t)) :
       Commit(generate_if_cond(S0, Frame.e, Frame.used, Top.ret, order))

generate_if_then(s, f, then_code, order) ==
  LET s1 == Emit(s, [op |-> "br", to |-> f.cont_bb])
      s2 == ReleaseVars([s1 EXCEPT !.g.bb = f.else_bb], order)
  IN  IF ~((f.e.t.fv \ f.e.e.fv) \subseteq DOMAIN s.g.scope) THEN Panic(s) ELSE
      PushWork(s2, <<Gen(f.e.e), [t |-> "IfElse", e |-> f.e, then_code |-> then_code,
                                  then_bb |-> f.then_bb, else_bb |-> f.else_bb,
                                  cont_bb |-> f.cont_bb]>>)

GenIfThen ==
  /\ At("IfThen")
  /\ \E order \in Perms(OnlyIn(S0, Frame.e.t, Frame.e.e)) :
       Commit(generate_if_then(S0, Frame, Top.ret, order))

generate_if_else(s, f, else_code) ==
  LET s1 == Emit(s, [op |-> "br", to |-> f.cont_bb])
      s2 == NewVal([s1 EXCEPT !.g.bb = f.cont_bb], "obj")
      s3 == Emit(s2, [op |-> "phi", dst |-> s2.v,
                      incoming |-> <<[val |-> f.then_code, bb |-> f.then_bb],
                                     [val |-> else_code, bb |-> f.else_bb]>>])
  IN  Return(s3, s2.v)

GenIfElse ==
  /\ At("IfElse")
  /\ Commit(generate_if_else(S0, Frame, Top.ret))


\* generate_lam, up to the recursive call: the lambda function's entry
RECURSIVE LoadCaptured(_, _, _, _, _)
LoadCaptured(s, closure_obj, closure_ty, captured_names, i) ==
  IF i >= Len(captured_names) THEN s
  ELSE LET s1 == build_load_field_of_obj(s, closure_obj, closure_ty, i + 2)
           s2 == [s1 EXCEPT !.g.scope = ScopePush(@, captured_names[i + 1], s1.v)]
       IN  LoadCaptured(s2, closure_obj, closure_ty, captured_names, i + 1)

RECURSIVE RetainCaptured(_, _)
RetainCaptured(s, names) ==
  IF names = <<>> THEN s
  ELSE RetainCaptured(build_retain(s, ScopeGet(s.g.scope, Head(names)).code), Tail(names))

ClosureType(captured_names) ==
  lam_obj_type \o [i \in 1..Len(captured_names) |-> "SubObject"]

\* the GenerationContext generate_lam creates for the body
LambdaContext(outer, lam_fn, val) ==
  [scope |-> EmptyScope, runtimes |-> outer.runtimes, fn |-> lam_fn, bb |-> 1,
   work |-> <<Gen(val)>>, ret |-> Nil, entry |-> <<>>, nret |-> 0]

\* variant: self and the parameter are released before the captured objects
\* are retained
generate_lam_entry_release_first(m, outer, e, captured_names) ==
  LET closure_ty == ClosureType(captured_names)
      lam_fn == Len(m) + 1
      arg_ptr == Val(0, "obj")
      closure_obj == Val(1, "obj")
      s0 == [m |-> Append(m, NewFunction("lambda", <<>>)),
             g |-> LambdaContext(outer, lam_fn, e.body),
             v |-> Nil, panic |-> FALSE, uf |-> FALSE]
      s1 == [s0 EXCEPT !.g.scope = ScopePush(ScopePush(@, e.arg, arg_ptr), SELF_NAME, closure_obj)]
      s2 == LoadCaptured(s1, closure_obj, closure_ty, captured_names, 0)
      s3 == IF SELF_NAME \notin e.body.fv THEN build_release(s2, closure_obj) ELSE s2
      s4 == IF e.arg \notin e.body.fv THEN build_release(s3, arg_ptr) ELSE s3
  IN  RetainCaptured(s4, captured_names)

generate_lam_entry(m, outer, e, captured_names) ==
  LET closure_ty == ClosureType(captured_names)
      lam_fn == Len(m) + 1
      arg_ptr == Val(0, "obj")
      closure_obj == Val(1, "obj")
      s0 == [m |-> Append(m, NewFunction("lambda", <<>>)),
             g |-> LambdaContext(outer, lam_fn, e.body),
             v |-> Nil, panic |-> FALSE, uf |-> FALSE]
      s1 == [s0 EXCEPT !.g.scope = ScopePush(ScopePush(@, e.arg, arg_ptr), SELF_NAME, closure_obj)]
      s2 == LoadCaptured(s1, closure_obj, closure_ty, captured_names, 0)
      s3 == RetainCaptured(s2, captured_names)
      s4 == IF SELF_NAME \notin e.body.fv THEN build_release(s3, closure_obj) ELSE s3
  IN  IF e.arg \notin e.body.fv THEN build_release(s4, arg_ptr) ELSE s4

GenLamStart ==
  /\ At("Gen") /\ Frame.e.k = "Lam"
  /\ \E captured_names \in Perms((Frame.e.body.fv \ {Frame.e.arg}) \ {SELF_NAME}) :
       LET e == Frame.e
           s == generate_lam_entry(module, Top, e, captured_names)
           outer == [Top EXCEPT !.work = <<[t |-> "LamEnd", e |-> e,
                                            captured_names |-> captured_names,
                                            lam_fn |-> s.g.fn]>> \o Tail(@),
                                !.entry = <<Top.scope>> \o @]
       IN  /\ module' = s.m
           /\ gcs' = Append([gcs EXCEPT ![Len(gcs)] = outer], s.g)
           /\ PhaseAfter(s, "gen")
           /\ UNCHANGED <<ast, heap, table, stack, result, err>>

\* generate_lam after the body: return from the lambda function, then build
\* the closure in the enclosing context
\* variant: the captured values are stored in the reverse order of fields
RECURSIVE StoreCapturedReversed(_, _, _, _, _)
StoreCapturedReversed(s, obj, closure_ty, captured_names, i) ==
  IF i >= Len(captured_names) THEN s
  ELSE LET s1 == get_var_retained_if_used_later(s, captured_names[i + 1])
           s2 == build_set_field(s1, obj, closure_ty, Len(captured_names) + 1 - i, s1.v)
       IN  StoreCapturedReversed(s2, obj, closure_ty, captured_names, i + 1)

RECURSIVE StoreCaptured(_, _, _, _, _)
StoreCaptured(s, obj, closure_ty, captured_names, i) ==
  IF i >= Len(captured_names) THEN s
  ELSE LET s1 == get_var_retained_if_used_later(s, captured_names[i + 1])
           s2 == build_set_field(s1, obj, closure_ty, i + 2, s1.v)
       IN  StoreCaptured(s2, obj, closure_ty, captured_names, i + 1)

generate_lam_return(s, val) ==
  LET s1 == build_pointer_cast(s, val, "obj")
  IN  Emit(s1, [op |-> "ret", val |-> s1.v])

generate_lam_closure(s, f) ==
  LET closure_ty == ClosureType(f.captured_names)
      s1 == build_allocate_shared_obj(s, closure_ty, "lambda")
      obj == s1.v
      s2 == build_set_field(s1, obj, closure_ty, 1, FnPtr(f.lam_fn))
      s3 == StoreCaptured(s2, obj, closure_ty, f.captured_names, 0)
  IN  Return(s3, obj)

GenLamEnd ==
  /\ phase = "gen" /\ Len(gcs) > 1 /\ Top.work = <<>>
  /\ LET inner == generate_lam_return([m |-> module, g |-> Top, v |-> Nil,
                                       panic |-> FALSE, uf |-> FALSE], Top.ret)
         outer == gcs[Len(gcs) - 1]
         s == generate_lam_closure([m |-> inner.m, g |-> [outer EXCEPT !.work = Tail(@)],
                                    v |-> Nil, panic |-> FALSE, uf |-> FALSE],
                                   Head(outer.work))
     IN  /\ module' = s.m
         /\ gcs' = [SubSeq(gcs, 1, Len(gcs) - 1) EXCEPT ![Len(gcs) - 1] = s.g]
         /\ PhaseAfter(s, "gen")
         /\ UNCHANGED <<ast, heap, table, stack, result, err>>

\* ---------------------------------------------------------------- runner.rs
\* build_runtime declares the runtime library's functions and registers them.
RuntimeNames == <<"RetainObj", "ReleaseObj", "ReportMalloc", "CheckLeak">>
MAIN == Len(RuntimeNames) + 1

build_runtime ==
  [m |-> [i \in 1..Len(RuntimeNames) |-> Extern(RuntimeNames[i])],
   runtimes |-> [key \in {RtKey(RuntimeNames[i]) : i \in 1..Len(RuntimeNames)} |->
                   CHOOSE i \in 1..Len(RuntimeNames) : RuntimeNames[i] = key.rt]]

\* the library functions run_ast binds around the program, innermost first
Library == <<"add", "eq", "fix", "newArray", "readArray", "writeArray", "writeArray!">>
prim(i) == lit("Prim", i, <<>>)

RECURSIVE AddLibrary(_, _)
AddLibrary(program, i) ==
  IF i > Len(Library) THEN program
  ELSE AddLibrary(let_in(Library[i], prim(i), program), i + 1)

\* run_ast: bind the library, annotate, create the context and the runtime,
\* add main
RunAst ==
  /\ phase = "start"
  /\ LET program == calculate_free_vars(AddLibrary(ast, 1))
     IN  /\ ast' = program
         /\ module' = Append(build_runtime.m, NewFunction("main", <<>>))
         /\ gcs' = <<[scope |-> EmptyScope, runtimes |-> build_runtime.runtimes,
                     fn |-> MAIN, bb |-> 1, work |-> <<Gen(program)>>, ret |-> Nil,
                     entry |-> <<>>, nret |-> 0]>>
  /\ phase' = "gen"
  /\ UNCHANGED <<heap, table, stack, result, err>>

\* variant: the final value is released before its payload is loaded
main_epilogue_release_first(s, program_result) ==
  LET s0 == build_release(s, program_result)
      s1 == build_load_field_of_obj(s0, program_result, int_obj_type, 1)
      s3 == IF SANITIZE_MEMORY
            THEN call_runtime(s1, "CheckLeak", [op |-> "checkleak", fn |-> 0])
            ELSE s1
  IN  IF s1.v.ty = "i64" THEN Emit(s3, [op |-> "ret", val |-> s1.v]) ELSE Panic(s3)

\* run_ast after eval_expr: extract the integer, release, leak check, return
\* (gc.load_obj_field and gc.release are build_load_field_of_obj and
\* build_release)
main_epilogue(s, program_result) ==
  LET s1 == build_load_field_of_obj(s, program_result, int_obj_type, 1)
      s2 == build_release(s1, program_result)
      s3 == IF SANITIZE_MEMORY
            THEN call_runtime(s2, "CheckLeak", [op |-> "checkleak", fn |-> 0])
            ELSE s2
  IN  IF s1.v.ty = "i64" THEN Emit(s3, [op |-> "ret", val |-> s1.v]) ELSE Panic(s3)

MainEnd ==
  /\ phase = "gen" /\ Len(gcs) = 1 /\ Top.work = <<>>
  /\ LET s == main_epilogue([m |-> module, g |-> Top, v |-> Nil, panic |-> FALSE,
                             uf |-> FALSE], Top.ret)
     IN  /\ module' = s.m
         /\ gcs' = <<s.g>>
         /\ phase' = IF s.panic THEN "panic" ELSE "verify"
  /\ UNCHANGED <<ast, heap, table, stack, result, err>>


\* module.verify(): every block ends in its only terminator, and the incoming
\* blocks of a phi are exactly the predecessors of its block
IsTerminator(ins) == ins.op \in {"ret", "br", "condbr"}
Succs(ins) ==
  CASE ins.op = "br" -> {ins.to}
    [] ins.op = "condbr" -> {ins.then, ins.else}
    [] OTHER -> {}
Preds(f, b) == {p \in 1..Len(f.blocks) : f.blocks[p] # <<>> /\ b \in Succs(f.blocks[p][Len(f.blocks[p])])}

VerifyFunction(f) ==
  \A b \in 1..Len(f.blocks) :
    LET blk == f.blocks[b]
    IN  /\ blk # <<>>
        /\ \A i \in 1..Len(blk) : IsTerminator(blk[i]) <=> i = Len(blk)
        /\ \A i \in 1..Len(blk) :
             blk[i].op = "phi" =>
               {blk[i].incoming[j].bb : j \in 1..Len(blk[i].incoming)} = Preds(f, b)

\* variant: a verifier that accepts every module
verify_accepts(m) == TRUE

verify(m) == \A f \in 1..Len(m) : VerifyFunction(m[f])

\* run_ast: verify the module, then execute_main_module
Undef == [t |-> "undef", v |-> 0]
Ptr(id) == [t |-> "ptr", v |-> id]
NewFrame(fn, params, dst, dying) ==
  [fn |-> fn, bb |-> 1, pc |-> 1, prev |-> 0,
   regs |-> [i \in 1..module[fn].nreg |-> IF i <= Len(params) THEN params[i] ELSE Undef],
   dst |-> dst, dying |-> dying]

Verify ==
  /\ phase = "verify"
  /\ IF verify(module)
     THEN phase' = "run" /\ stack' = <<NewFrame(MAIN, <<>>, -1, 0)>>
     ELSE phase' = "verify_failed" /\ stack' = stack
  /\ UNCHANGED <<ast, module, gcs, heap, table, result, err>>

\* ------------------------------------------- the machine running the IR
Cur == stack[Len(stack)]
Ins == module[Cur.fn].blocks[Cur.bb][Cur.pc]
Running(op) == phase = "run" /\ stack # <<>> /\ Ins.op = op

Ev(fr, val) ==
  CASE val.ty = "fn" -> [t |-> "fn", v |-> val.r]
    [] val.ty = "const" -> [t |-> "int", v |-> val.r]
    [] OTHER -> fr.regs[val.r + 1]

IsObj(x, states) == x.t = "ptr" /\ x.v \in 1..Len(heap) /\ heap[x.v].st \in states

SetCur(fr) == stack' = [stack EXCEPT ![Len(stack)] = fr]
Next1(fr) == [fr EXCEPT !.pc = @ + 1]
SetReg(fr, val, x) == [Next1(fr) EXCEPT !.regs[val.r + 1] = x]

MemErr(what) ==
  /\ phase' = "memerr" /\ err' = what
  /\ UNCHANGED <<ast, module, gcs, heap, table, stack, result>>

\* build_allocate_shared_obj's sequence: malloc, report_malloc, refcount 1,
\* destructor pointer
ExecAlloc ==
  /\ Running("alloc")
  /\ LET id == Len(heap) + 1
     IN  /\ heap' = Append(heap, [rc |-> 1, dtor |-> Ins.dtor, layout |-> Ins.layout,
                                  fields |-> [i \in 1..Len(Ins.layout) |-> Undef],
                                  st |-> "live"])
         /\ table' = IF Ins.report THEN table \cup {id} ELSE table
         /\ SetCur(SetReg(Cur, Ins.dst, Ptr(id)))
  /\ UNCHANGED <<phase, ast, module, gcs, result, err>>

ExecCast ==
  /\ Running("cast")
  /\ SetCur(SetReg(Cur, Ins.dst, Ev(Cur, Ins.src)))
  /\ UNCHANGED <<phase, ast, module, gcs, heap, table, result, err>>

ExecIntCast ==
  /\ Running("intcast")
  /\ SetCur(SetReg(Cur, Ins.dst, Ev(Cur, Ins.src)))
  /\ UNCHANGED <<phase, ast, module, gcs, heap, table, result, err>>

ExecLoad ==
  /\ Running("load")
  /\ LET o == Ev(Cur, Ins.obj)
     IN  IF ~IsObj(o, {"live", "dying"}) THEN MemErr("load from a freed object")
         ELSE IF Ins.idx >= Len(heap[o.v].fields) \/ heap[o.v].fields[Ins.idx + 1] = Undef
         THEN MemErr("load of an unset field")
         ELSE /\ SetCur(SetReg(Cur, Ins.dst, heap[o.v].fields[Ins.idx + 1]))
              /\ UNCHANGED <<phase, ast, module, gcs, heap, table, result, err>>

ExecStore ==
  /\ Running("store")
  /\ LET o == Ev(Cur, Ins.obj)
     IN  IF ~IsObj(o, {"live"}) \/ Ins.idx >= Len(heap[o.v].fields)
         THEN MemErr("store to a freed object")
         ELSE /\ heap' = [heap EXCEPT ![o.v].fields[Ins.idx + 1] = Ev(Cur, Ins.val)]
              /\ SetCur(Next1(Cur))
              /\ UNCHANGED <<phase, ast, module, gcs, table, result, err>>

\* retain_obj
ExecRetain ==
  /\ Running("retain")
  /\ LET o == Ev(Cur, Ins.obj)
     IN  IF ~IsObj(o, {"live"}) THEN MemErr("retain of a freed object")
         ELSE /\ heap' = [heap EXCEPT ![o.v].rc = @ + 1]
              /\ SetCur(Next1(Cur))
              /\ UNCHANGED <<phase, ast, module, gcs, table, result, err>>

\* release_obj: decrement; at zero call the object's destructor
ExecRelease ==
  /\ Running("release")
  /\ LET o == Ev(Cur, Ins.obj)
     IN  IF ~IsObj(o, {"live"}) THEN MemErr("release of a freed object")
         ELSE IF heap[o.v].rc > 1
         THEN /\ heap' = [heap EXCEPT ![o.v].rc = @ - 1]
              /\ SetCur(Next1(Cur))
              /\ UNCHANGED <<phase, ast, module, gcs, table, result, err>>
         ELSE /\ heap' = [heap EXCEPT ![o.v].rc = 0, ![o.v].st = "dying"]
              /\ stack' = Append([stack EXCEPT ![Len(stack)] = Next1(Cur)],
                                 NewFrame(heap[o.v].dtor, <<o>>, -1, o.v))
              /\ UNCHANGED <<phase, ast, module, gcs, table, result, err>>

\* the call build_app emits
ExecCall ==
  /\ Running("call")
  /\ LET f == Ev(Cur, Ins.callee)
         args == [i \in 1..Len(Ins.args) |-> Ev(Cur, Ins.args[i])]
     IN  IF f.t # "fn" \/ ~IsObj(args[2], {"live"}) THEN MemErr("call through a freed closure")
         ELSE IF Len(stack) >= MaxDepth
         THEN /\ phase' = "cutoff"
              /\ UNCHANGED <<ast, module, gcs, heap, table, stack, result, err>>
         ELSE /\ stack' = Append(stack, NewFrame(f.v, args, Ins.dst.r, 0))
              /\ UNCHANGED <<phase, ast, module, gcs, heap, table, result, err>>

ExecRetMain ==
  /\ Running("ret") /\ Len(stack) = 1
  /\ result' = Ev(Cur, Ins.val).v
  /\ phase' = "done"
  /\ UNCHANGED <<ast, module, gcs, heap, table, stack, err>>

ExecRetLambda ==
  /\ Running("ret") /\ Len(stack) > 1 /\ Cur.dying = 0
  /\ LET caller == stack[Len(stack) - 1]
     IN  stack' = [SubSeq(stack, 1, Len(stack) - 1) EXCEPT
                     ![Len(stack) - 1] = SetReg(caller, Val(Cur.dst, "obj"), Ev(Cur, Ins.val))]
  /\ UNCHANGED <<phase, ast, module, gcs, heap, table, result, err>>

\* release_obj after the destructor returns: the record is freed
ExecRetDtor ==
  /\ Running("ret") /\ Len(stack) > 1 /\ Cur.dying # 0
  /\ heap' = [heap EXCEPT ![Cur.dying].st = "freed"]
  /\ table' = table \ {Cur.dying}
  /\ stack' = SubSeq(stack, 1, Len(stack) - 1)
  /\ UNCHANGED <<phase, ast, module, gcs, result, err>>

ExecBr ==
  /\ Running("br")
  /\ SetCur([Cur EXCEPT !.prev = Cur.bb, !.bb = Ins.to, !.pc = 1])
  /\ UNCHANGED <<phase, ast, module, gcs, heap, table, result, err>>

ExecCondBr ==
  /\ Running("condbr")
  /\ SetCur([Cur EXCEPT !.prev = Cur.bb, !.pc = 1,
                        !.bb = IF Ev(Cur, Ins.cond).v # 0 THEN Ins.then ELSE Ins.else])
  /\ UNCHANGED <<phase, ast, module, gcs, heap, table, result, err>>

ExecPhi ==
  /\ Running("phi")
  /\ LET j == CHOOSE j \in 1..Len(Ins.incoming) : Ins.incoming[j].bb = Cur.prev
     IN  SetCur(SetReg(Cur, Ins.dst, Ev(Cur, Ins.incoming[j].val)))
  /\ UNCHANGED <<phase, ast, module, gcs, heap, table, result, err>>

\* check_leak asserts that the allocation table is empty
ExecCheckLeak ==
  /\ Running("checkleak")
  /\ IF table = {} THEN SetCur(Next1(Cur)) /\ phase' = phase
     ELSE phase' = "leak" /\ stack' = stack
  /\ UNCHANGED <<ast, module, gcs, heap, table, result, err>>

\* ---------------------------------------------------------- specifications
Init ==
  /\ phase = "start"
  /\ ast \in Programs
  /\ module = <<>>
  /\ gcs = <<>>
  /\ heap = <<>>
  /\ table = {}
  /\ stack = <<>>
  /\ result = 0
  /\ err = ""

Next ==
  \/ RunAst
  \/ GenVar \/ GenLit
  \/ GenAppStart \/ GenAppMid \/ GenAppEnd
  \/ GenLamStart \/ GenLamEnd
  \/ GenLetStart \/ GenLetMid \/ GenLetEnd
  \/ GenIfStart \/ GenIfCond \/ GenIfThen \/ GenIfElse
  \/ MainEnd
  \/ Verify
  \/ ExecAlloc \/ ExecCast \/ ExecIntCast \/ ExecLoad \/ ExecStore
  \/ ExecRetain \/ ExecRelease \/ ExecCall
  \/ ExecRetMain \/ ExecRetLambda \/ ExecRetDtor
  \/ ExecBr \/ ExecCondBr \/ ExecPhi \/ ExecCheckLeak

Spec == Init /\ [][Next]_vars

\* the free-variable pass alone, on ASTs of every shape
InitFv ==
  /\ phase = "fv"
  /\ ast \in FvInputs
  /\ module = <<>>
  /\ gcs = <<>>
  /\ heap = <<>>
  /\ table = {}
  /\ stack = <<>>
  /\ result = 0
  /\ err = ""

CalcFreeVars ==
  /\ phase = "fv"
  /\ ast' = calculate_free_vars(ast)
  /\ phase' = "fv_done"
  /\ UNCHANGED <<module, gcs, heap, table, stack, result, err>>

SpecFv == InitFv /\ [][CalcFreeVars]_vars

\* modify_used_later alone, on scopes of every shape
ScopeEntries ==
  {<<>>} \cup {<<[code |-> Val(2, "obj"), used_later |-> a]>> : a \in 0..MaxCount}
         \cup {<<[code |-> Val(2, "obj"), used_later |-> a],
                 [code |-> Val(3, "obj"), used_later |-> b]>> : a \in 0..MaxCount, b \in 0..MaxCount}
ScopeInputs ==
  {[n \in {m \in Range(Names) : f[m] # <<>>} |-> f[n]] : f \in [Range(Names) -> ScopeEntries]}

InitScope ==
  /\ phase = "scope"
  /\ ast = type_node
  /\ module = <<>>
  /\ \E sc \in ScopeInputs :
       gcs = <<[scope |-> sc, runtimes |-> [k \in {} |-> 0], fn |-> 0, bb |-> 0,
                work |-> <<>>, ret |-> Nil, entry |-> <<>>, nret |-> 0]>>
  /\ heap = <<>>
  /\ table = {}
  /\ stack = <<>>
  /\ result = 0
  /\ err = ""

\* one call of increment_used_later or decrement_used_later; a scope that
\* holds a wrapped counter or a counter at MaxCount is not driven further
ScopeStep(s) ==
  /\ gcs' = <<s.g>>
  /\ PhaseAfter(s, "scope")
  /\ UNCHANGED <<ast, module, heap, table, stack, result, err>>

ScopeState == [m |-> module, g |-> Top, v |-> Nil, panic |-> FALSE, uf |-> FALSE]

ScopeIncrement ==
  /\ phase = "scope" /\ ~Underflow(Top.scope)
  /\ \E names \in SUBSET Range(Names) :
       /\ \A n \in names \cap DOMAIN Top.scope : ScopeGet(Top.scope, n).used_later < MaxCount
       /\ ScopeStep(increment_used_later(ScopeState, names))

ScopeDecrement ==
  /\ phase = "scope" /\ ~Underflow(Top.scope)
  /\ \E names \in SUBSET Range(Names) :
       ScopeStep(decrement_used_later(ScopeState, names))

SpecScope == InitScope /\ [][ScopeIncrement \/ ScopeDecrement]_vars


\* =================================================================== claims
UserProgram == Sub(ast, [i \in 1..Len(Library) |-> 2])
Generated == phase \in {"verify", "verify_failed", "run", "done", "leak", "memerr", "cutoff"}
DtorFns == {f \in 1..Len(module) : module[f].name = "dtor"}
HeapIds == 1..Len(heap)

\* main is past its release of the program's value (and past the destructor
\* that release may have called)
MainReleased ==
  \/ phase \in {"done", "leak"}
  \/ phase = "run" /\ Len(stack) = 1 /\ Ins.op \in {"checkleak", "ret"}

\* C1: once main has released the program's value, every object that was
\* allocated has reference count 0 and is freed, and the allocation table is
\* empty, so the leak check passes.
C1_NoLeak ==
  /\ phase # "leak"
  /\ MainReleased =>
       /\ table = {}
       /\ \A i \in HeapIds : heap[i].rc = 0 /\ heap[i].st = "freed"

\* a finished run that allocated a closure with a captured value and an
\* object that was shared
C1_Witness ==
  /\ phase = "done"
  /\ table = {}
  /\ \E i \in HeapIds : Len(heap[i].layout) > 2 /\ heap[i].st = "freed"
  /\ Len(heap) > Len(Library) + 2

\* C2: no freed object is ever loaded from, stored to, retained, released or
\* called; a reference count never goes below 0; an object is live exactly
\* while its count is at least 1, so it is freed once; and every object a
\* live closure holds in a captured field is live.
C2_MemorySafe ==
  /\ err = ""
  /\ phase # "memerr"
  /\ \A i \in HeapIds :
       /\ heap[i].rc >= 0
       /\ (heap[i].st = "live") <=> (heap[i].rc >= 1)
       /\ heap[i].st = "live" =>
            \A k \in 1..Len(heap[i].layout) :
              (heap[i].layout[k] = "SubObject" /\ heap[i].fields[k] # Undef)
                => IsObj(heap[i].fields[k], {"live"})

\* a run in which one object is shared by two owners while another object
\* has already been freed
C2_Witness ==
  /\ phase = "run"
  /\ \E i \in HeapIds : heap[i].rc >= 2
  /\ \E j \in HeapIds : heap[j].st = "freed" /\ j > Len(Library)

\* the names with an occurrence at or below the node at path p that no node
\* between p and the occurrence binds
FreeAt(e, p) ==
  LET n == Sub(e, p)
  IN  {v \in UNION {LeafNames(Sub(n, q)) : q \in Paths(n)} :
         \E q \in Paths(n) :
           /\ v \in LeafNames(Sub(n, q))
           /\ \A j \in 1..Len(q) : v \notin BindsAt(Sub(n, SubSeq(q, 1, j - 1)), q[j])}

\* C3: calculate_free_vars returns a tree of the same shape as its input in
\* which every node carries exactly the set of names free at that node.
C3_ExactFreeVars ==
  [][CalcFreeVars =>
       /\ Strip(ast') = ast
       /\ \A p \in Paths(ast) : Sub(ast', p).fv = FreeAt(ast, p)]_vars

\* an annotated Let whose variable occurs in its own bound expression and
\* stays free, under a Lam that binds another name
C3_Witness ==
  /\ phase = "fv_done"
  /\ ast.k = "Lam"
  /\ ast.body.k = "Let"
  /\ ast.body.var \in ast.body.bound.fv
  /\ ast.body.var \in ast.fv
  /\ ast.arg # ast.body.var

\* C4: the module never holds two destructor functions for one layout.
C4_OneDtorPerLayout ==
  \A f \in DtorFns : \A g \in DtorFns : module[f].layout = module[g].layout => f = g


\* ---------------------------------------------- scope against pending frames
\* The lambda whose body the i-th context compiles, and the value its entry
\* code gives a name: the parameter, the closure itself, or the value loaded
\* from the captured field of that name.
LamFrame(i) == Head(gcs[i - 1].work)
CapturedLoad(fn, field) ==
  LET blk == module[fn].blocks[1]
      at == CHOOSE j \in 1..Len(blk) :
              blk[j].op = "load" /\ blk[j].obj = Val(1, "obj") /\ blk[j].idx = field
  IN  blk[at].dst
HeaderVal(i, n) ==
  LET f == LamFrame(i)
  IN  IF n = SELF_NAME THEN Val(1, "obj")
      ELSE IF n = f.e.arg THEN Val(0, "obj")
      ELSE CapturedLoad(f.lam_fn, 1 + CHOOSE j \in 1..Len(f.captured_names) : f.captured_names[j] = n)

\* positions (innermost first) of the frames of context i that wait for the
\* body of a Let of n to finish
LetEnds(i, n) ==
  {p \in 1..Len(gcs[i].work) : gcs[i].work[p].t = "LetEnd" /\ gcs[i].work[p].e.var = n}
Least(S) == CHOOSE p \in S : \A q \in S : p <= q

\* the value of the innermost binder of n that encloses the expression
\* context i is compiling
InnermostBinding(i, n) ==
  IF LetEnds(i, n) # {} THEN gcs[i].work[Least(LetEnds(i, n))].bound_code
  ELSE HeaderVal(i, n)

\* a reference evaluation of the language with lexical scope: a name denotes
\* the value of its innermost enclosing binder
RECURSIVE Eval(_, _)
Eval(e, env) ==
  CASE e.k = "Var" -> env[e.name]
    [] e.k = "Lit" -> [t |-> "int", v |-> e.val]
    [] e.k = "Lam" -> [t |-> "closure", lam |-> e, env |-> env]
    [] e.k = "App" ->
         LET f == Eval(e.f, env)
             a == Eval(e.a, env)
         IN  Eval(f.lam.body, (SELF_NAME :> f) @@ (f.lam.arg :> a) @@ f.env)
    [] e.k = "Let" -> Eval(e.val, (e.var :> Eval(e.bound, env)) @@ env)
    [] OTHER -> IF Eval(e.c, env).v # 0 THEN Eval(e.t, env) ELSE Eval(e.e, env)

\* C5: a Var compiles to the value of the innermost enclosing binder of its
\* name (the newest Let still open, else the lambda's parameter, the closure
\* or a captured field), a binder that shadows a name hides the outer value
\* only inside its own subtree, and so a finished run returns what lexical
\* scoping gives.
C5_InnermostBinder ==
  /\ (At("Gen") /\ Frame.e.k = "Var") =>
       /\ Frame.e.name \in DOMAIN Top.scope
       /\ ScopeGet(Top.scope, Frame.e.name).code = InnermostBinding(Len(gcs), Frame.e.name)
  /\ phase = "done" => result = Eval(ast, EmptyScope).v

\* a finished run of a program in which a name is read again after a Let that
\* shadowed it has ended, and the outer value 1 (not the inner 2) comes back
C5_Witness ==
  /\ phase = "done"
  /\ UserProgram.k = "Let" /\ UserProgram.val.k = "Let"
  /\ UserProgram.val.bound.k = "Let"
  /\ UserProgram.val.bound.var = UserProgram.var
  /\ UserProgram.val.val.k = "Var" /\ UserProgram.val.val.name = UserProgram.var
  /\ UserProgram.bound.val = 1 /\ UserProgram.val.bound.bound.val = 2
  /\ result = 1

\* how many bindings the lambda's entry code makes for n in context i
HeaderCount(i, n) ==
  IF i = 1 THEN 0
  ELSE (IF n = LamFrame(i).e.arg THEN 1 ELSE 0) + (IF n = SELF_NAME THEN 1 ELSE 0)
       + (IF n \in Range(LamFrame(i).captured_names) THEN 1 ELSE 0)
ScopeDepth(i, n) == IF n \in DOMAIN gcs[i].scope THEN Len(gcs[i].scope[n]) ELSE 0
LetNames(i) == {gcs[i].work[p].e.var : p \in {q \in 1..Len(gcs[i].work) : gcs[i].work[q].t \in {"LetMid", "LetEnd"}}}
InBound(i, n) ==
  {p \in 1..Len(gcs[i].work) : gcs[i].work[p].t = "LetMid" /\ gcs[i].work[p].e.var = n}

\* C6: while the bound expression E1 of Let(x, E1, E2) is being compiled the
\* new x is not in scope: the scope holds one entry of x per Let of x whose
\* body is being compiled (plus the lambda's own bindings), none for a Let
\* whose bound expression is still being compiled; an x read inside E1 is
\* the value bound before the Let; and let x = A in let x = x in x returns A.
C6_BoundBeforePush ==
  /\ phase = "gen" =>
       \A i \in 1..Len(gcs) : \A n \in DOMAIN gcs[i].scope \cup LetNames(i) :
         ScopeDepth(i, n) = Cardinality(LetEnds(i, n)) + HeaderCount(i, n)
  /\ (At("Gen") /\ Frame.e.k = "Var" /\ InBound(Len(gcs), Frame.e.name) # {}) =>
       LET n == Frame.e.name
           p == Least(InBound(Len(gcs), n))
           outer == {q \in LetEnds(Len(gcs), n) : q > p}
           inner == {q \in LetEnds(Len(gcs), n) : q < p}
       IN  inner = {} =>
             ScopeGet(Top.scope, n).code =
               IF outer # {} THEN Top.work[Least(outer)].bound_code ELSE HeaderVal(Len(gcs), n)
  /\ (/\ phase = "done"
      /\ UserProgram.k = "Let" /\ UserProgram.bound.k = "Lit"
      /\ UserProgram.val.k = "Let" /\ UserProgram.val.var = UserProgram.var
      /\ UserProgram.val.bound.k = "Var" /\ UserProgram.val.bound.name = UserProgram.var
      /\ UserProgram.val.val.k = "Var" /\ UserProgram.val.val.name = UserProgram.var)
       => result = UserProgram.bound.val

\* the x inside E1 of let x = E1 in E2 is being compiled while an outer x is
\* in scope
C6_Witness ==
  /\ At("Gen") /\ Frame.e.k = "Var"
  /\ InBound(Len(gcs), Frame.e.name) # {}
  /\ \E q \in LetEnds(Len(gcs), Frame.e.name) : q > Least(InBound(Len(gcs), Frame.e.name))
  /\ ScopeDepth(Len(gcs), Frame.e.name) = 1


\* ------------------------------------------------------ used_later counters
\* The frame (by position, innermost first) that pops the k-th entry of n in
\* context i, counting entries from the oldest; a binding of the lambda's
\* entry code is never popped and lies below every frame.
PopFrame(i, n, k) ==
  LET ends == LetEnds(i, n)
      above == ScopeDepth(i, n) - k
  IN  IF above < Cardinality(ends)
      THEN CHOOSE p \in ends : Cardinality({q \in ends : q < p}) = above
      ELSE Len(gcs[i].work) + 1

\* the frames that were pushed while the k-th entry of n was the newest
Segment(i, n, k) ==
  LET hi == PopFrame(i, n, k)
      lo == IF k = ScopeDepth(i, n) THEN 0 ELSE PopFrame(i, n, k + 1)
  IN  {p \in 1..Len(gcs[i].work) : lo < p /\ p < hi}

\* a frame whose pending sub-expression(s) had their free names counted up
Counted(f, n) ==
  \/ f.t = "AppMid" /\ n \in f.e.a.fv
  \/ f.t \in {"LetMid", "IfCond"} /\ n \in f.used

\* the numbers of uses of the current binding of n that running e can make:
\* one per Var, one for a lambda that captures n, one branch of an If
RECURSIVE Uses(_, _)
Uses(e, n) ==
  CASE e.k = "Var" -> {IF e.name = n THEN 1 ELSE 0}
    [] e.k = "Lam" -> {IF n \in e.fv THEN 1 ELSE 0}
    [] e.k = "App" -> {a + b : a \in Uses(e.f, n), b \in Uses(e.a, n)}
    [] e.k = "Let" ->
         {a + b : a \in Uses(e.bound, n), b \in IF e.var = n THEN {0} ELSE Uses(e.val, n)}
    [] e.k = "If" -> {a + b : a \in Uses(e.c, n), b \in Uses(e.t, n) \cup Uses(e.e, n)}
    [] OTHER -> {0}

PendingUses(f, n) ==
  CASE f.t = "AppMid" -> Uses(f.e.a, n)
    [] f.t = "LetMid" -> IF f.e.var = n THEN {0} ELSE Uses(f.e.val, n)
    [] f.t = "IfCond" -> Uses(f.e.t, n) \cup Uses(f.e.e, n)
    [] OTHER -> {0}

\* the numbers of uses of the newest binding of n still to be emitted in the
\* active context after the expression being emitted, over the code paths
RECURSIVE FutureUses(_, _)
FutureUses(frames, n) ==
  IF frames = <<>> \/ (Head(frames).t = "LetEnd" /\ Head(frames).e.var = n) THEN {0}
  ELSE {a + b : a \in PendingUses(Head(frames), n), b \in FutureUses(Tail(frames), n)}

\* C7 (as stated): at every point of the emission used_later of a variable
\* in scope equals the number of uses of it still to be emitted on the
\* current code path after the expression being emitted.
C7_CountsUses ==
  (phase = "gen" /\ Top.work # <<>>) =>
    \A n \in DOMAIN Top.scope :
      ScopeGet(Top.scope, n).used_later \in FutureUses(Top.work, n)

\* C7 (amended): used_later of a scope entry equals the number of pending
\* sub-expressions that follow the expression being emitted and have the
\* variable free (the argument of an App, the body of a Let, the branches of
\* an If taken together), however many uses each of them holds; so it is 0
\* exactly when no use of the entry is left after the current expression.
C7_CountsPendingExprs ==
  /\ \A i \in 1..Len(gcs) : \A n \in DOMAIN gcs[i].scope : \A k \in 1..Len(gcs[i].scope[n]) :
       gcs[i].scope[n][k].used_later =
         Cardinality({p \in Segment(i, n, k) : Counted(gcs[i].work[p], n)})
  /\ (phase = "gen" /\ Top.work # <<>>) =>
       \A n \in DOMAIN Top.scope :
         (ScopeGet(Top.scope, n).used_later = 0) <=> (FutureUses(Top.work, n) = {0})

\* a counter of 1 while two uses of the variable are still to be emitted
C7_Witness ==
  /\ phase = "gen" /\ Top.work # <<>>
  /\ \E n \in DOMAIN Top.scope :
       /\ ScopeGet(Top.scope, n).used_later = 1
       /\ FutureUses(Top.work, n) = {2}

\* C8 (as stated): while a lambda body is emitted the enclosing contexts hold
\* neither a scope nor a registry, and the active context's registry has an
\* entry for every destructor emitted so far.
C8_MovedAndRestored ==
  phase = "gen" =>
    /\ \A i \in 1..(Len(gcs) - 1) :
         gcs[i].scope = EmptyScope /\ DOMAIN gcs[i].runtimes = {}
    /\ \A f \in DtorFns : DtorKey(module[f].layout) \in DOMAIN Top.runtimes

\* ------------------------------------------------------------- destructors
RECURSIVE SubObjectFields(_, _)
SubObjectFields(layout, i) ==
  IF i >= Len(layout) THEN <<>>
  ELSE (IF layout[i + 1] = "SubObject" THEN <<i>> ELSE <<>>) \o SubObjectFields(layout, i + 1)

DtorFrames(id) == {p \in 1..Len(stack) : stack[p].dying = id}

MainBlock == module[MAIN].blocks[gcs[1].bb]
program_result == gcs[1].ret
\* the releases of the program's value that follow the load of its payload
MainReleases ==
  LET at == CHOOSE j \in 1..Len(MainBlock) :
              /\ MainBlock[j].op = "load" /\ MainBlock[j].obj = program_result
              /\ \A k \in (j + 1)..Len(MainBlock) : MainBlock[k].op # "load"
  IN  {j \in (at + 1)..Len(MainBlock) :
         MainBlock[j].op = "release" /\ MainBlock[j].obj = program_result}

\* C10: main ends with: load the integer payload of the program's value,
\* release that value (once), check_leak, return the loaded integer; so a
\* finished run returns the payload the value had before it was released.
C10_MainEpilogue ==
  /\ Generated =>
       LET n == Len(MainBlock)
       IN  /\ n >= 4
           /\ MainBlock[n - 3].op = "load"
           /\ MainBlock[n - 3].obj = program_result
           /\ MainBlock[n - 3].layout = int_obj_type
           /\ MainBlock[n - 3].idx = 1
           /\ MainBlock[n - 2].op = "release"
           /\ MainBlock[n - 2].obj = program_result
           /\ MainBlock[n - 1].op = "checkleak"
           /\ MainBlock[n] = [op |-> "ret", val |-> MainBlock[n - 3].dst]
           /\ Cardinality(MainReleases) = 1
  /\ phase = "done" =>
       LET obj == Ev(stack[1], program_result)
       IN  /\ obj.t = "ptr"
           /\ result = heap[obj.v].fields[2].v
           /\ heap[obj.v].st = "freed"

\* a finished run whose value came out of a call and had payload 2
C10_Witness ==
  /\ phase = "done"
  /\ result = 2
  /\ UserProgram.k = "App"


Instrs ==
  UNION {UNION {{[fn |-> f, bb |-> b, at |-> j, ins |-> module[f].blocks[b][j]]
                   : j \in 1..Len(module[f].blocks[b])}
                 : b \in 1..Len(module[f].blocks)}
          : f \in 1..Len(module)}
IsObjPtr(v) == v.ty = "obj"

\* C12: every value generate_expr has returned, every value held by a scope
\* or by a step that waits to bind or apply it, and every operand of an
\* emitted retain or release has the generic object-pointer type, and the
\* compilation never aborts.
C12_ObjectPointers ==
  /\ phase # "panic"
  /\ \A i \in 1..Len(gcs) :
       /\ gcs[i].ret # Nil => IsObjPtr(gcs[i].ret)
       /\ \A n \in DOMAIN gcs[i].scope : \A k \in 1..Len(gcs[i].scope[n]) :
            IsObjPtr(gcs[i].scope[n][k].code)
       /\ \A p \in 1..Len(gcs[i].work) :
            LET f == gcs[i].work[p]
            IN  /\ f.t = "LetEnd" => IsObjPtr(f.bound_code)
                /\ f.t = "AppEnd" => IsObjPtr(f.lambda_code)
                /\ f.t = "IfElse" => IsObjPtr(f.then_code)
  /\ \A x \in Instrs : x.ins.op \in {"retain", "release"} => IsObjPtr(x.ins.obj)

\* a lambda body is being compiled whose scope holds a captured value, after
\* a freshly allocated object (a struct pointer) was cast and returned
C12_Witness ==
  /\ phase = "gen" /\ Len(gcs) = 2
  /\ Cardinality(DOMAIN Top.scope) >= 3
  /\ Top.ret # Nil /\ IsObjPtr(Top.ret)
  /\ \E x \in Instrs :
       x.ins.op = "cast" /\ x.ins.src.ty = "struct" /\ x.ins.dst = Top.ret


\* main is complete: the block main's builder is in ends with the return of
\* the epilogue
MainEmitted ==
  /\ Len(module) >= MAIN
  /\ MainBlock # <<>> /\ MainBlock[Len(MainBlock)].op = "ret"

\* C13: the module is run only after main is complete and only if every
\* function of it passes verification; when verification fails nothing has
\* run and nothing runs: no frame, no object, no result.
C13_VerifiedBeforeRun ==
  /\ (phase \in {"run", "done", "leak", "memerr", "cutoff"} \/ stack # <<>> \/ heap # <<>>) =>
       /\ MainEmitted
       /\ \A f \in 1..Len(module) : VerifyFunction(module[f])
  /\ phase \in {"verify", "verify_failed"} =>
       MainEmitted /\ stack = <<>> /\ heap = <<>> /\ result = 0

\* a module that failed verification: the run has stopped without a result
C13_Witness ==
  /\ phase = "verify_failed"
  /\ \E f \in 1..Len(module) : ~VerifyFunction(module[f])
  /\ stack = <<>> /\ result = 0


\* the call sites of the module
CallSites == {x \in Instrs : x.ins.op = "call"}

\* C14: every call site is a tail call of the function loaded from field 1
\* of its second operand, and the step that applies a closure emits, as the
\* last instruction, a tail call whose first operand is the compiled argument
\* and whose second operand is the compiled closure.
C14_TailCallArgThenClosure ==
  /\ [](\A x \in CallSites :
          /\ x.ins.tail
          /\ Len(x.ins.args) = 2
          /\ x.at > 1
          /\ LET ld == module[x.fn].blocks[x.bb][x.at - 1]
             IN  /\ ld.op = "load" /\ ld.idx = 1 /\ ld.layout = lam_obj_type
                 /\ ld.dst = x.ins.callee
                 /\ ld.obj = x.ins.args[2])
  /\ [][At("AppEnd") =>
          LET blk == module'[Top.fn].blocks[Top.bb]
              c == blk[Len(blk)]
          IN  /\ Len(blk) = Len(module[Top.fn].blocks[Top.bb]) + 2
              /\ c.op = "call" /\ c.tail
              /\ c.args = <<Top.ret, Frame.lambda_code>>
              /\ gcs'[Len(gcs)].ret = c.dst]_vars

\* applications were compiled both in main and in a lambda body, and the
\* program has run
C14_Witness ==
  /\ phase = "done"
  /\ \E x, y \in CallSites : x.fn = MAIN /\ y.fn # MAIN /\ x.ins.args[1] # x.ins.args[2]


\* the step that emits a variable, and what a step appends to the block the
\* active builder is in
VarStep == At("Gen") /\ Frame.e.k = "Var" /\ Frame.e.name \in DOMAIN Top.scope
Appended ==
  LET old == module[Top.fn].blocks[Top.bb]
      new == module'[Top.fn].blocks[Top.bb]
  IN  SubSeq(new, Len(old) + 1, Len(new))
OnlyAppends ==
  /\ Len(module') = Len(module)
  /\ \A f \in 1..Len(module) : \A b \in 1..Len(module[f].blocks) :
       <<f, b>> # <<Top.fn, Top.bb>> => module'[f].blocks[b] = module[f].blocks[b]
  /\ LET old == module[Top.fn].blocks[Top.bb]
     IN  SubSeq(module'[Top.fn].blocks[Top.bb], 1, Len(old)) = old
IsRetainOf(ins, v) == ins.op = "retain" /\ ins.obj = v
VarRetains == Len(Appended) = 1 /\ IsRetainOf(Appended[1], ScopeGet(Top.scope, Frame.e.name).code)
VarTransfers == Appended = <<>>
VarReturnsTop ==
  /\ OnlyAppends
  /\ gcs'[Len(gcs)].ret = ScopeGet(Top.scope, Frame.e.name).code
  /\ gcs'[Len(gcs)].scope = Top.scope
  /\ IF ScopeGet(Top.scope, Frame.e.name).used_later > 0 THEN VarRetains ELSE VarTransfers

\* C15 (as stated): emitting Var(n) returns the value on top of n's stack
\* with one retain when used_later[n] > 0 and nothing otherwise, and on every
\* code path a use that is followed by another use retains and a use that
\* is the last one of its path emits nothing.
C15_LastUseOnPathTransfers ==
  [][VarStep =>
       /\ VarReturnsTop
       /\ (\E k \in FutureUses(Top.work, Frame.e.name) : k > 0) => VarRetains
       /\ 0 \in FutureUses(Top.work, Frame.e.name) => VarTransfers]_vars

\* C15 (amended): emitting Var(n) returns the value on top of n's stack with
\* one retain when used_later[n] > 0 and nothing otherwise; the use retains
\* exactly when some code path through the rest of the function uses the
\* binding again, and emits nothing exactly when no code path does.  (On a
\* path whose last use retained, the handle is left to the release at the
\* head of the branch that does not use the variable.)
C15_RetainsIffUsedOnSomePath ==
  [][VarStep =>
       /\ VarReturnsTop
       /\ VarRetains <=> FutureUses(Top.work, Frame.e.name) # {0}
       /\ VarTransfers <=> FutureUses(Top.work, Frame.e.name) = {0}]_vars

\* a variable was just emitted with a retain although one code path through
\* the rest does not use it again, and another was emitted without
C15_Witness ==
  /\ phase = "gen" /\ Top.ret # Nil
  /\ LET blk == module[Top.fn].blocks[Top.bb]
     IN  /\ blk # <<>> /\ IsRetainOf(blk[Len(blk)], Top.ret)
         /\ \E n \in DOMAIN Top.scope :
              /\ ScopeGet(Top.scope, n).code = Top.ret
              /\ 0 \in FutureUses(Top.work, n)
              /\ FutureUses(Top.work, n) # {0}


\* the handles of value v an instruction gives away (a release, an operand
\* of a call, a value stored into a closure) less the ones it adds (a retain)
Consumes(ins, v) ==
  CASE ins.op = "release" -> IF ins.obj = v THEN 1 ELSE 0
    [] ins.op = "retain" -> IF ins.obj = v THEN -1 ELSE 0
    [] ins.op = "call" -> Cardinality({i \in 1..Len(ins.args) : ins.args[i] = v})
    [] ins.op = "store" -> IF ins.val = v THEN 1 ELSE 0
    [] OTHER -> 0

RECURSIVE BlockNet(_, _)
BlockNet(blk, v) ==
  IF blk = <<>> THEN 0 ELSE Consumes(Head(blk), v) + BlockNet(Tail(blk), v)

\* the handles of v consumed on the way from block b of function f to block
\* stop; at a conditional branch inside, the way through its then block
RECURSIVE PathNet(_, _, _, _)
PathNet(f, b, stop, v) ==
  IF b = stop \/ module[f].blocks[b] = <<>> THEN 0
  ELSE LET blk == module[f].blocks[b]
           last == blk[Len(blk)]
       IN  BlockNet(blk, v) +
           CASE last.op = "br" -> PathNet(f, last.to, stop, v)
             [] last.op = "condbr" -> PathNet(f, last.then, stop, v)
             [] OTHER -> 0

\* the joins of the module: a phi with the blocks its If branched to
Phis == {x \in Instrs : x.ins.op = "phi"}
ThenBB(x) == x.ins.incoming[1].bb
ElseBB(x) == x.ins.incoming[2].bb
ThenVal(x) == x.ins.incoming[1].val
ElseVal(x) == x.ins.incoming[2].val
\* the values of function f that exist before block b is entered
DefinedBefore(f, b) ==
  {Val(r, "obj") : r \in 0..(module[f].nreg - 1)} \
    {x.ins.dst : x \in {y \in Instrs : y.fn = f /\ y.bb >= b /\ "dst" \in DOMAIN y.ins}}
BranchNet(x, k, v) ==
  PathNet(x.fn, x.ins.incoming[k].bb, x.bb, v) + (IF x.ins.incoming[k].val = v THEN 1 ELSE 0)
SameHandlesConsumed ==
  \A x \in Phis : \A v \in DefinedBefore(x.fn, ThenBB(x)) :
    BranchNet(x, 1, v) = BranchNet(x, 2, v)

\* blk is one release for each of the names, in some order
ReleasesOnce(blk, scope, names) ==
  \E order \in Perms(names) :
    /\ Len(blk) = Len(order)
    /\ \A i \in 1..Len(blk) :
         blk[i].op = "release" /\ blk[i].obj = ScopeGet(scope, order[i]).code
\* the variables the head of a branch has to drop
Unused(scope, other, this) ==
  {n \in other.fv \ this.fv : ScopeGet(scope, n).used_later = 0}

\* C16: when the then block (the else block) of an If is entered, what has
\* been emitted into it is exactly one release for each variable that is free
\* in the else branch (the then branch) only and has used_later = 0, and no
\* release for one whose used_later is greater than 0; and for every If the
\* code from the then block to the join and the code from the else block to
\* the join give away the same number of handles of every value that existed
\* before the branch.
C16_BranchHeadReleases ==
  /\ [][At("IfCond") =>
          LET scope == gcs'[Len(gcs)].scope
              then_bb == Len(module[Top.fn].blocks) + 1
          IN  /\ gcs'[Len(gcs)].bb = then_bb
              /\ ReleasesOnce(module'[Top.fn].blocks[then_bb], scope, Unused(scope, Frame.e.e, Frame.e.t))]_vars
  /\ [][At("IfThen") =>
          /\ gcs'[Len(gcs)].bb = Frame.else_bb
          /\ gcs'[Len(gcs)].scope = Top.scope
          /\ ReleasesOnce(module'[Top.fn].blocks[Frame.else_bb], Top.scope,
                          Unused(Top.scope, Frame.e.t, Frame.e.e))]_vars
  /\ []SameHandlesConsumed

\* an If has been compiled and run whose then block starts with the release
\* of a variable of the else branch only, and whose else block holds no
\* release although a variable of the then branch only (used again after
\* the If, hence retained in the then block) is not used in it
C16_Witness ==
  /\ phase = "done"
  /\ \E x \in Phis : \E v \in DefinedBefore(x.fn, ThenBB(x)) :
       /\ module[x.fn].blocks[ThenBB(x)][1].op = "release"
       /\ module[x.fn].blocks[ThenBB(x)][1].obj = v
       /\ BranchNet(x, 2, v) = 1
  /\ \E x \in Phis : \E v \in DefinedBefore(x.fn, ThenBB(x)) :
       /\ ThenVal(x) = v
       /\ \E y \in Instrs : y.fn = x.fn /\ y.bb = ThenBB(x) /\ y.ins.op = "retain" /\ y.ins.obj = v
       /\ BranchNet(x, 2, v) = 0
       /\ \A y \in Instrs : (y.fn = x.fn /\ y.bb = ElseBB(x)) => y.ins.op # "release"


\* C17 (as stated): the blocks named by the two incoming edges of every phi
\* are exactly the predecessors of the block the phi is in, whatever the
\* branches of the If contain.
C17_PhiNamesPredecessors ==
  \A x \in Phis : {ThenBB(x), ElseBB(x)} = Preds(module[x.fn], x.bb)


\* the step that starts a lambda, the names it captures, and the entry block
\* of the function it adds
LamStep == At("Gen") /\ Frame.e.k = "Lam"
Captured(e) == (e.body.fv \ {e.arg}) \ {SELF_NAME}
IsPrefix(a, b) == Len(a) <= Len(b) /\ SubSeq(b, 1, Len(a)) = a
EntryReleases(e) ==
  (IF SELF_NAME \notin e.body.fv THEN <<Val(1, "obj")>> ELSE <<>>) \o
  (IF e.arg \notin e.body.fv THEN <<Val(0, "obj")>> ELSE <<>>)
\* entry is k loads of the closure's fields, then one retain for each loaded
\* value, then the releases of self and of the parameter that e asks for
LambdaEntry(entry, e) ==
  LET k == Cardinality(Captured(e))
      rest == SubSeq(entry, 2 * k + 1, Len(entry))
  IN  /\ Len(entry) >= 2 * k
      /\ \A i \in 1..k :
           /\ entry[i].op = "load" /\ entry[i].obj = Val(1, "obj")
           /\ entry[k + i].op = "retain"
           /\ Cardinality({j \in 1..Len(entry) :
                             entry[j].op = "retain" /\ entry[j].obj = entry[i].dst}) = 1
      /\ \A i \in 1..Len(rest) : rest[i].op = "release"
      /\ [i \in 1..Len(rest) |-> rest[i].obj] = EntryReleases(e)

\* C18: the function a lambda adds starts, before anything of the body is
\* emitted, with exactly: the loads of the captured objects, one retain of
\* each of them, then the release of self exactly when %SELF% is not free in
\* the body, then the release of the parameter exactly when it is not free
\* in the body; and what has been emitted into a block is never changed, so
\* the body's instructions come after these.
C18_LambdaEntry ==
  /\ [][LamStep =>
          LET f == Len(module) + 1
          IN  /\ Len(module') = f /\ module'[f].name = "lambda"
              /\ Len(module'[f].blocks) = 1
              /\ LambdaEntry(module'[f].blocks[1], Frame.e)
              /\ Len(gcs') = Len(gcs) + 1
              /\ gcs'[Len(gcs')].fn = f
              /\ gcs'[Len(gcs')].work = <<Gen(Frame.e.body)>>]_vars
  /\ [][\A f \in 1..Len(module) : \A b \in 1..Len(module[f].blocks) :
          IsPrefix(module[f].blocks[b], module'[f].blocks[b])]_vars

\* the body of a lambda with two captured objects is about to be emitted:
\* its function holds two loads, two retains and the release of self
C18_Witness ==
  /\ phase = "gen" /\ Len(gcs) = 2
  /\ Top.work # <<>> /\ Frame.t = "Gen" /\ Top.ret = Nil
  /\ {"x", "y", "z"} \subseteq Frame.e.fv
  /\ LET entry == module[Top.fn].blocks[1]
     IN  /\ Len(entry) = 5
         /\ entry[3].op = "retain" /\ entry[3].obj = entry[1].dst
         /\ entry[4].op = "retain" /\ entry[4].obj = entry[2].dst
         /\ entry[5].op = "release" /\ entry[5].obj = Val(1, "obj")


\* the step that ends a lambda: the body is compiled, the closure is built in
\* the enclosing context
LamEndStep == phase = "gen" /\ Len(gcs) > 1 /\ Top.work = <<>>
Enclosing == gcs[Len(gcs) - 1]
\* what the step appends to the block of the enclosing context
ClosureCode ==
  LET old == module[Enclosing.fn].blocks[Enclosing.bb]
      new == module'[Enclosing.fn].blocks[Enclosing.bb]
  IN  SubSeq(new, Len(old) + 1, Len(new))
\* the field from which lambda function f loads the value v of its scope
LoadIndexes(f, v) ==
  {x.ins.idx : x \in {y \in Instrs : y.fn = f /\ y.bb = 1 /\ y.ins.op = "load"
                                       /\ y.ins.obj = Val(1, "obj") /\ y.ins.dst = v}}
SubObjectIndexes(layout) == {i \in 0..(Len(layout) - 1) : layout[i + 1] = "SubObject"}

\* C19: the object allocated for a lambda has the layout ControlBlock,
\* LambdaFunction and one SubObject field for each captured name; before the
\* closure is cast and returned every SubObject field is stored exactly once;
\* and for each captured name the field that receives the enclosing scope's
\* binding of the name is the one field the lambda function loads its own
\* binding of that name from.
C19_ClosureFields ==
  [][LamEndStep =>
       LET e == Head(Enclosing.work).e
           code == ClosureCode
           obj == code[1].dst
           stores == {j \in 1..Len(code) : code[j].op = "store" /\ code[j].obj = obj
                                             /\ code[j].idx >= 2}
       IN  /\ code[1].op = "alloc"
           /\ SubSeq(code[1].layout, 1, 2) = lam_obj_type
           /\ Cardinality(SubObjectIndexes(code[1].layout)) = Cardinality(Captured(e))
           /\ Len(code[1].layout) = 2 + Cardinality(Captured(e))
           /\ \A i \in SubObjectIndexes(code[1].layout) :
                Cardinality({j \in stores : code[j].idx = i}) = 1
           /\ \A j \in stores : code[j].idx \in SubObjectIndexes(code[1].layout)
           /\ code[Len(code)].op = "cast" /\ code[Len(code)].src = obj
           /\ gcs'[Len(gcs) - 1].ret = code[Len(code)].dst
           /\ \A n \in Captured(e) :
                /\ n \in DOMAIN Top.scope /\ n \in DOMAIN Enclosing.scope
                /\ \E i \in SubObjectIndexes(code[1].layout) :
                     /\ LoadIndexes(Top.fn, Top.scope[n][1].code) = {i}
                     /\ \E j \in stores :
                          /\ code[j].idx = i
                          /\ code[j].val = ScopeGet(Enclosing.scope, n).code]_vars

\* a closure with two captured objects has been built: two stores into
\* fields 2 and 3 of a freshly allocated object, then its cast
C19_Witness ==
  /\ phase = "gen" /\ Len(gcs) = 1
  /\ LET blk == module[Top.fn].blocks[Top.bb]
         n == Len(blk)
     IN  /\ n >= 5
         /\ blk[n].op = "cast" /\ blk[n].dst = Top.ret
         /\ \E a \in 1..n : \E j1 \in 1..n : \E j2 \in {n - 1} :
              /\ blk[a].op = "alloc" /\ Len(blk[a].layout) = 4 /\ blk[a].dst = blk[n].src
              /\ a < j1 /\ j1 < j2
              /\ blk[j1].op = "store" /\ blk[j1].idx = 2 /\ blk[j1].obj = blk[a].dst
              /\ blk[j2].op = "store" /\ blk[j2].idx = 3 /\ blk[j2].obj = blk[a].dst
              /\ blk[j1].val # blk[j2].val


\* C20: for Let(x, b, v), the step that follows the compilation of b binds
\* x to b's value and emits one release of that value exactly when x is not
\* free in v, and nothing when it is, with v still to be compiled; the steps
\* that start and end the Let emit nothing; as long as v is being compiled
\* the binding is in scope; and the last step pops x and leaves v's value as
\* the value of the Let.
C20_LetRelease ==
  /\ [][At("LetMid") =>
          LET e == Frame.e
              g == gcs'[Len(gcs)]
          IN  /\ OnlyAppends
              /\ Appended = IF e.var \in e.val.fv THEN <<>>
                            ELSE <<[op |-> "release", fn |-> Top.runtimes[RtKey("ReleaseObj")],
                                    obj |-> Top.ret]>>
              /\ ScopeGet(g.scope, e.var) = [code |-> Top.ret, used_later |-> 0]
              /\ Len(g.work) = Len(Top.work) + 1
              /\ g.work[1] = Gen(e.val)
              /\ g.work[2].t = "LetEnd" /\ g.work[2].e = e]_vars
  /\ [][(At("Gen") /\ Frame.e.k = "Let") => module' = module]_vars
  /\ [][At("LetEnd") =>
          /\ module' = module
          /\ gcs'[Len(gcs)].scope = ScopePop(Top.scope, Frame.e.var)
          /\ gcs'[Len(gcs)].ret = Top.ret]_vars
  /\ [](\A i \in 1..Len(gcs) : \A p \in 1..Len(gcs[i].work) :
          gcs[i].work[p].t = "LetEnd" =>
            /\ gcs[i].work[p].e.var \in DOMAIN gcs[i].scope
            /\ \E k \in 1..Len(gcs[i].scope[gcs[i].work[p].e.var]) :
                 gcs[i].scope[gcs[i].work[p].e.var][k].code = gcs[i].work[p].bound_code)

\* a variable the body does not use has just been bound: its value is
\* released by the last instruction emitted and the body is about to be
\* compiled
C20_Witness ==
  /\ phase = "gen" /\ Len(Top.work) >= 2
  /\ Frame.t = "Gen" /\ Top.work[2].t = "LetEnd"
  /\ Frame.e = Top.work[2].e.val
  /\ Top.work[2].e.var \notin Frame.e.fv
  /\ Top.work[2].e.var \notin Range(Library)
  /\ LET blk == module[Top.fn].blocks[Top.bb]
     IN  /\ blk # <<>>
         /\ blk[Len(blk)].op = "release"
         /\ blk[Len(blk)].obj = Top.work[2].bound_code
         /\ ScopeGet(Top.scope, Top.work[2].e.var).code = Top.work[2].bound_code


\* ----------------------------------------------------------- C21 .. C22
\* a generate_expr call of context i returns in this step, and the scope
\* that call started with (the scope before the step when the call starts
\* and returns in the same step)
ReturnsIn(i) == i <= Len(gcs') /\ gcs'[i].nret = gcs[i].nret + 1
EntryScope(i) ==
  IF Len(gcs'[i].entry) = Len(gcs[i].entry) THEN gcs[i].scope ELSE Head(gcs[i].entry)
\* the steps of a context that wait for a generate_expr call to return
Continuations(i) == {p \in 1..Len(gcs[i].work) : gcs[i].work[p].t # "Gen"}

\* C22: whenever a generate_expr call returns, the scope of its context is
\* the scope the call started with: the same names, the same entries with
\* the same values and the same used_later counters; while a lambda body is
\* compiled the scopes of the enclosing contexts do not change; and the
\* calls in progress are exactly the steps waiting on the work stack.
C22_ScopeRestored ==
  /\ [][phase = "gen" =>
          \A i \in 1..Len(gcs) :
            /\ ReturnsIn(i) => gcs'[i].scope = EntryScope(i)
            /\ (i < Len(gcs) /\ i <= Len(gcs')) => gcs'[i].scope = gcs[i].scope
            /\ (i = Len(gcs) /\ i < Len(gcs')) => gcs'[i].scope = gcs[i].scope]_vars
  /\ [](phase = "gen" =>
          \A i \in 1..Len(gcs) : Len(gcs[i].entry) = Cardinality(Continuations(i)))

\* the bound expression of a Let, itself a Let of a name that is already
\* bound, has just returned: that name is back to its one older entry, whose
\* counter is still raised for the body of the outer Let
C22_Witness ==
  /\ phase = "gen" /\ Top.work # <<>> /\ Frame.t = "LetMid"
  /\ Top.ret # Nil /\ Top.nret >= 3
  /\ Frame.e.bound.k = "Let"
  /\ Frame.e.bound.var \in DOMAIN Top.scope
  /\ Len(Top.scope[Frame.e.bound.var]) = 1
  /\ ScopeGet(Top.scope, Frame.e.bound.var).used_later = 1
  /\ Top.scope = modify_used_later(Head(Top.entry), Frame.used, 1)


\* the scope the call that waits at position p of context i started with
EntryOf(i, p) == gcs[i].entry[Cardinality({q \in Continuations(i) : q <= p})]
\* by how much the counter of the entry of n that was newest when the frame
\* at position p was pushed exceeds its value at the start of that call
Raised(i, p, n) ==
  LET k == Len(EntryOf(i, p)[n])
  IN  gcs[i].scope[n][k].used_later - EntryOf(i, p)[n][k].used_later
\* the steps at or above position p (below it when strict) that have the
\* same entry of n counted up
CountedAbove(i, p, n, strict) ==
  LET k == Len(EntryOf(i, p)[n])
  IN  Cardinality({q \in Segment(i, n, k) :
                     /\ (IF strict THEN q < p ELSE q <= p)
                     /\ Counted(gcs[i].work[q], n)})

\* C21: App(f, a) first raises the counter of every name of fv(a) by one and
\* starts f, emitting nothing; while f is compiled each of these counters
\* exceeds its value before the App by one for the App, plus one for each
\* step of f's own compilation that has the name counted; when f has
\* returned it is exactly one higher, the next step lowers it to the value
\* before the App and starts a, emitting nothing; while a is compiled the
\* App adds nothing to it; and the last step emits the load of the function
\* pointer and one call on (a's value, f's value), no retain and no release.
C21_AppBumpsAroundFunction ==
  /\ [][(At("Gen") /\ Frame.e.k = "App") =>
          /\ module' = module
          /\ gcs'[Len(gcs)].scope = modify_used_later(Top.scope, Frame.e.a.fv, 1)
          /\ gcs'[Len(gcs)].work =
               <<Gen(Frame.e.f), [t |-> "AppMid", e |-> Frame.e]>> \o Tail(Top.work)]_vars
  /\ [][At("AppMid") =>
          /\ module' = module
          /\ Top.scope = modify_used_later(Head(Top.entry), Frame.e.a.fv, 1)
          /\ gcs'[Len(gcs)].scope = Head(Top.entry)
          /\ gcs'[Len(gcs)].work =
               <<Gen(Frame.e.a), [t |-> "AppEnd", e |-> Frame.e, lambda_code |-> Top.ret]>>
                 \o Tail(Top.work)]_vars
  /\ [][At("AppEnd") =>
          /\ OnlyAppends
          /\ Len(Appended) = 2
          /\ Appended[1].op = "load" /\ Appended[1].obj = Frame.lambda_code
          /\ Appended[2].op = "call" /\ Appended[2].args = <<Top.ret, Frame.lambda_code>>
          /\ gcs'[Len(gcs)].scope = Top.scope]_vars
  /\ [](phase = "gen" =>
          \A i \in 1..Len(gcs) : \A p \in 1..Len(gcs[i].work) :
            LET fr == gcs[i].work[p]
            IN  /\ fr.t = "AppMid" =>
                     \A n \in fr.e.a.fv :
                       /\ Raised(i, p, n) = CountedAbove(i, p, n, FALSE)
                       /\ Raised(i, p, n) >= 1
                /\ fr.t = "AppEnd" =>
                     \A n \in fr.e.a.fv : Raised(i, p, n) = CountedAbove(i, p, n, TRUE))

\* the function of an application whose argument uses a variable of the
\* program has returned: the variable's counter is one above its value
\* before the App, and the argument is still to be compiled
C21_Witness ==
  /\ At("AppMid")
  /\ Frame.e.f.k = "Lam"
  /\ Frame.e.a.fv # {} /\ Frame.e.a.fv \cap Range(Library) = {}
  /\ \A n \in Frame.e.a.fv :
       ScopeGet(Top.scope, n).used_later = ScopeGet(Head(Top.entry), n).used_later + 1

====
